---- MODULE Spec2Model ----
(***************************************************************************)
(* A model of query_predictor/predictor/data_transformer.py: the           *)
(* DataTransformer pipeline.  transform() walks func_strs, resolves each   *)
(* name with getattr on the pipeline object and calls it, then applies the *)
(* caller's funcs.  A data frame is a record of its column labels, its row *)
(* labels (the pandas index) and its rows, each row a tuple of cells       *)
(* aligned with the column labels.  A text cell is a tuple of code points. *)
(***************************************************************************)
EXTENDS Integers, Sequences, FiniteSets, TLC

VARIABLES
    data_frame,   \* self.data_frame
    func_strs,    \* self.func_strs
    funcs,        \* self.funcs
    stack,        \* active transform() frames, innermost last: [i, j] loop positions
    status,       \* "running", "returned" or "failed" (an exception left transform())
    err,          \* the exception that left transform()
    result,       \* the value transform() returned
    log,          \* history: the steps and functions executed so far
    D0,           \* history: the data frame supplied at construction
    run,          \* 1 for the first pipeline, 2 for a second one built alike
    first,        \* history: the outcome of the first pipeline
    caller_df,    \* the caller's data frame object, the one given to the constructor
    aliased       \* self.data_frame is still that object

vars == <<data_frame, func_strs, funcs, stack, status, err, result, log, D0, run,
          first, caller_df, aliased>>

----------------------------------------------------------------------------
(* Bounds of the model *)

MaxSteps == 2
MaxFuncs == 2
MaxRows == 2
RecursionLimit == 2

----------------------------------------------------------------------------
(* Column names of .constant *)

QUERY_COLUMN == "query"
QUERY_STATE_COLUMN == "query_state"
CPU_TIME_LABEL == "cpu_time_label"
PEAK_MEMORY_LABEL == "peak_memory_label"
CPU_TIME_COLUMN == "cpu_time"
PEAK_MEMORY_COLUMN == "peak_memory_bytes"

----------------------------------------------------------------------------
(* Exceptions and call results *)

NoError == [kind |-> "None", arg |-> <<>>]
KeyError(key) == [kind |-> "KeyError", arg |-> key]
ValueError == [kind |-> "ValueError", arg |-> <<"The truth value of a DataFrame is ambiguous">>]
TypeError == [kind |-> "TypeError", arg |-> <<"object is not callable">>]
RecursionError == [kind |-> "RecursionError", arg |-> <<"maximum recursion depth exceeded">>]
CustomError(f) == [kind |-> "CustomError", arg |-> <<f>>]
DataTransformerException(func_str) ==
    [kind |-> "DataTransformerException",
     arg |-> <<func_str, " is not an available transformer">>]

\* A call's result: df is the data frame held when the call ends; fresh tells
\* whether self.data_frame was bound to a new object (New) or is still the
\* object held before, unchanged or changed in place (Ok, Raise).
\* calls lists the label generator calls made on the way.
Ok(df) == [ok |-> TRUE, df |-> df, err |-> NoError, fresh |-> FALSE, calls |-> <<>>]
New(df) == [ok |-> TRUE, df |-> df, err |-> NoError, fresh |-> TRUE, calls |-> <<>>]
Raise(e, df) == [ok |-> FALSE, df |-> df, err |-> e, fresh |-> FALSE, calls |-> <<>>]

----------------------------------------------------------------------------
(* The data frame operations the transformers use *)

RECURSIVE Compress(_, _)
Compress(seq, mask) ==
    IF Len(seq) = 0 THEN <<>>
    ELSE (IF Head(mask) THEN <<Head(seq)>> ELSE <<>>)
         \o Compress(Tail(seq), Tail(mask))

\* columns.get_loc(key): a key is a tuple of labels, a plain label the 1-tuple;
\* a column of a flat index matches a key only when the key is that one label.
get_loc(columns, key) ==
    IF \E i \in 1..Len(columns) : <<columns[i]>> = key
    THEN CHOOSE i \in 1..Len(columns) : <<columns[i]>> = key
    ELSE 0

HasColumn(df, c) == get_loc(df.columns, <<c>>) # 0

\* df[c] for a column that exists: its cells, one per row
Column(df, c) ==
    [r \in 1..Len(df.rows) |-> df.rows[r][get_loc(df.columns, <<c>>)]]

\* (variant: the column is always appended)
SetColumn_append(df, c, values) ==
    [df EXCEPT !.columns = Append(df.columns, c),
               !.rows = [r \in 1..Len(df.rows) |-> Append(df.rows[r], values[r])]]

\* df[c] = values: overwrite the column in place, or append it as the last one
SetColumn(df, c, values) ==
    IF HasColumn(df, c)
    THEN [df EXCEPT !.rows = [r \in 1..Len(df.rows) |->
              [df.rows[r] EXCEPT ![get_loc(df.columns, <<c>>)] = values[r]]]]
    ELSE [df EXCEPT !.columns = Append(df.columns, c),
                    !.rows = [r \in 1..Len(df.rows) |-> Append(df.rows[r], values[r])]]

\* (variant: the rows kept are labelled anew from 0)
BooleanMask_reset(df, mask) ==
    [df EXCEPT !.index = [k \in 1..Len(Compress(df.index, mask)) |-> k - 1],
               !.rows = Compress(df.rows, mask)]

\* df[mask]: the rows where the mask holds, with their row labels
BooleanMask(df, mask) ==
    [df EXCEPT !.index = Compress(df.index, mask),
               !.rows = Compress(df.rows, mask)]

\* (variant: the case is swapped)
lower_swapcase(c) ==
    IF c >= 65 /\ c <= 90 THEN c + 32
    ELSE IF c >= 97 /\ c <= 122 THEN c - 32 ELSE c

\* str.lower() on one code point and on a text
lower(c) == IF c >= 65 /\ c <= 90 THEN c + 32 ELSE c
str_lower(s) == [k \in 1..Len(s) |-> lower(s[k])]

----------------------------------------------------------------------------
(* The label generators of .label_creator: one category per row, from the  *)
(* row's metric; a row without the metric column raises KeyError.          *)

Bucket(v) == IF v < 100 THEN 0 ELSE 1

CPUTimeLabelCreator_label(df, r) ==
    IF HasColumn(df, CPU_TIME_COLUMN)
    THEN [ok |-> TRUE, val |-> Bucket(Column(df, CPU_TIME_COLUMN)[r]), err |-> NoError]
    ELSE [ok |-> FALSE, val |-> 0, err |-> KeyError(<<CPU_TIME_COLUMN>>)]

PeakMemoryLabelCreator_label(df, r) ==
    IF HasColumn(df, PEAK_MEMORY_COLUMN)
    THEN [ok |-> TRUE, val |-> Bucket(Column(df, PEAK_MEMORY_COLUMN)[r]), err |-> NoError]
    ELSE [ok |-> FALSE, val |-> 0, err |-> KeyError(<<PEAK_MEMORY_COLUMN>>)]

----------------------------------------------------------------------------
(* The predefined transformers.  Each takes the held data frame and gives  *)
(* [ok, df, err]: df is the data frame held when the call ends.            *)

\* data_frame.apply(label, axis=1): the generator is called on the rows in
\* order, each time with the whole row, until a call raises; res[r] is what the
\* call on row r gives
Applied(gen, df, res) ==
    LET bad == {r \in 1..Len(df.rows) : ~res[r].ok}
        upto == IF bad = {} THEN Len(df.rows)
                ELSE CHOOSE r \in bad : \A q \in bad : r <= q
    IN  [r \in 1..upto |->
            [gen |-> gen, index |-> df.index[r], columns |-> df.columns,
             cells |-> df.rows[r], ok |-> res[r].ok, val |-> res[r].val]]

WithCalls(out, calls) == [out EXCEPT !.calls = calls]

\* (variant: the labels are assigned from the last row up)
create_cpu_time_label_misaligned(df) ==
    LET res == [r \in 1..Len(df.rows) |-> CPUTimeLabelCreator_label(df, r)]
        bad == {r \in 1..Len(df.rows) : ~res[r].ok}
        calls == Applied("CPUTimeLabelCreator", df, res)
    IN  IF bad # {}
        THEN WithCalls(Raise(res[CHOOSE r \in bad : \A q \in bad : r <= q].err, df), calls)
        ELSE WithCalls(Ok(SetColumn(df, CPU_TIME_LABEL,
                 [r \in 1..Len(df.rows) |-> res[Len(df.rows) + 1 - r].val])), calls)

\* (variant: the category is relative to the largest value in the data frame)
create_cpu_time_label_relative(df) ==
    LET res == [r \in 1..Len(df.rows) |-> CPUTimeLabelCreator_label(df, r)]
        bad == {r \in 1..Len(df.rows) : ~res[r].ok}
        calls == Applied("CPUTimeLabelCreator", df, res)
        top(r) == \A q \in 1..Len(df.rows) :
                     Column(df, CPU_TIME_COLUMN)[q] <= Column(df, CPU_TIME_COLUMN)[r]
    IN  IF bad # {}
        THEN WithCalls(Raise(res[CHOOSE r \in bad : \A q \in bad : r <= q].err, df), calls)
        ELSE WithCalls(Ok(SetColumn(df, CPU_TIME_LABEL,
                 [r \in 1..Len(df.rows) |-> IF top(r) THEN 1 ELSE 0])), calls)

create_cpu_time_label(df) ==
    LET res == [r \in 1..Len(df.rows) |-> CPUTimeLabelCreator_label(df, r)]
        bad == {r \in 1..Len(df.rows) : ~res[r].ok}
        calls == Applied("CPUTimeLabelCreator", df, res)
    IN  IF bad # {}
        THEN WithCalls(Raise(res[CHOOSE r \in bad : \A q \in bad : r <= q].err, df), calls)
        ELSE WithCalls(Ok(SetColumn(df, CPU_TIME_LABEL,
                 [r \in 1..Len(df.rows) |-> res[r].val])), calls)

\* (variant: the column is created before the generator runs)
create_peak_memory_label_early(df) ==
    LET res == [r \in 1..Len(df.rows) |-> PeakMemoryLabelCreator_label(df, r)]
        bad == {r \in 1..Len(df.rows) : ~res[r].ok}
        calls == Applied("PeakMemoryLabelCreator", df, res)
    IN  IF bad # {}
        THEN WithCalls(Raise(res[CHOOSE r \in bad : \A q \in bad : r <= q].err,
                 SetColumn(df, PEAK_MEMORY_LABEL, [r \in 1..Len(df.rows) |-> 0])), calls)
        ELSE WithCalls(Ok(SetColumn(df, PEAK_MEMORY_LABEL,
                 [r \in 1..Len(df.rows) |-> res[r].val])), calls)

create_peak_memory_label(df) ==
    LET res == [r \in 1..Len(df.rows) |-> PeakMemoryLabelCreator_label(df, r)]
        bad == {r \in 1..Len(df.rows) : ~res[r].ok}
        calls == Applied("PeakMemoryLabelCreator", df, res)
    IN  IF bad # {}
        THEN WithCalls(Raise(res[CHOOSE r \in bad : \A q \in bad : r <= q].err, df), calls)
        ELSE WithCalls(Ok(SetColumn(df, PEAK_MEMORY_LABEL,
                 [r \in 1..Len(df.rows) |-> res[r].val])), calls)

\* (variant: the second label is forgotten)
create_labels_cpu_only(df) == create_cpu_time_label(df)

\* (variant: the peak-memory label comes first)
create_labels_peak_first(df) ==
    LET peak == create_peak_memory_label(df)
        cpu == create_cpu_time_label(peak.df)
    IN  IF peak.ok THEN WithCalls(cpu, peak.calls \o cpu.calls) ELSE peak

create_labels(df) ==
    LET cpu == create_cpu_time_label(df)
        peak == create_peak_memory_label(cpu.df)
    IN  IF cpu.ok THEN WithCalls(peak, cpu.calls \o peak.calls) ELSE cpu

\* (variant: the comparison is inverted)
drop_failed_queries_inverted(df) ==
    IF HasColumn(df, QUERY_STATE_COLUMN)
    THEN New(BooleanMask(df, [r \in 1..Len(df.rows) |->
                Column(df, QUERY_STATE_COLUMN)[r] # "FINISHED"]))
    ELSE Ok(df)

drop_failed_queries(df) ==
    IF HasColumn(df, QUERY_STATE_COLUMN)
    THEN New(BooleanMask(df, [r \in 1..Len(df.rows) |->
                Column(df, QUERY_STATE_COLUMN)[r] = "FINISHED"]))
    ELSE Ok(df)

\* (variant: rows whose lowercase query repeats an earlier row's are dropped)
to_lower_queries_dedup(df) ==
    IF HasColumn(df, QUERY_COLUMN)
    THEN LET low == SetColumn(df, QUERY_COLUMN,
                        [r \in 1..Len(df.rows) |-> str_lower(Column(df, QUERY_COLUMN)[r])])
         IN  Ok(BooleanMask(low, [r \in 1..Len(low.rows) |->
                    \A q \in 1..(r - 1) :
                        Column(low, QUERY_COLUMN)[q] # Column(low, QUERY_COLUMN)[r]]))
    ELSE Raise(KeyError(<<QUERY_COLUMN>>), df)

to_lower_queries(df) ==
    IF HasColumn(df, QUERY_COLUMN)
    THEN Ok(SetColumn(df, QUERY_COLUMN,
                [r \in 1..Len(df.rows) |-> str_lower(Column(df, QUERY_COLUMN)[r])]))
    ELSE Raise(KeyError(<<QUERY_COLUMN>>), df)

\* the subscript is the tuple (QUERY_COLUMN, CPU_TIME_LABEL, PEAK_MEMORY_LABEL):
\* one key of three labels, looked up as a single column
select_training_columns(df) ==
    LET key == <<QUERY_COLUMN, CPU_TIME_LABEL, PEAK_MEMORY_LABEL>>
        loc == get_loc(df.columns, key)
    IN  IF loc = 0
        THEN Raise(KeyError(key), df)
        ELSE New([df EXCEPT !.columns = <<df.columns[loc]>>,
                           !.rows = [r \in 1..Len(df.rows) |-> <<df.rows[r][loc]>>]])

Transformers == {"drop_failed_queries", "to_lower_queries", "create_labels",
                 "create_cpu_time_label", "create_peak_memory_label",
                 "select_training_columns"}

----------------------------------------------------------------------------
(* The caller's functions, data frame -> data frame *)

RECURSIVE Reverse(_)
Reverse(seq) == IF Len(seq) = 0 THEN <<>> ELSE Append(Reverse(Tail(seq)), Head(seq))

FuncPool == {"head1", "reverse", "boom"}

\* func(self.data_frame) for the function named f
CallFunc(f, df) ==
    CASE f = "head1" ->
            New([df EXCEPT !.index = SubSeq(df.index, 1, IF Len(df.index) > 0 THEN 1 ELSE 0),
                          !.rows = SubSeq(df.rows, 1, IF Len(df.rows) > 0 THEN 1 ELSE 0)])
      [] f = "reverse" ->
            New([df EXCEPT !.index = Reverse(df.index), !.rows = Reverse(df.rows)])
      [] OTHER -> Raise(CustomError(f), df)

----------------------------------------------------------------------------
(* Name resolution in transform() *)

\* getattr(self, func_str, None): the attribute of the pipeline under that name
getattr(self_funcs, func_str) ==
    IF func_str \in Transformers \cup {"transform", "__repr__"}
    THEN [t |-> "method", name |-> func_str, truth |-> TRUE]
    ELSE IF func_str = "data_frame"
    THEN [t |-> "DataFrame", name |-> func_str, truth |-> FALSE]
    ELSE IF func_str = "funcs"
    THEN [t |-> "tuple", name |-> func_str, truth |-> Len(self_funcs) > 0]
    ELSE [t |-> "None", name |-> func_str, truth |-> FALSE]

\* transformer() for a bound method other than transform
CallMethod(name, df) ==
    CASE name = "drop_failed_queries" -> drop_failed_queries(df)
      [] name = "to_lower_queries" -> to_lower_queries(df)
      [] name = "create_labels" -> create_labels(df)
      [] name = "create_cpu_time_label" -> create_cpu_time_label(df)
      [] name = "create_peak_memory_label" -> create_peak_memory_label(df)
      [] name = "select_training_columns" -> select_training_columns(df)
      [] OTHER -> Ok(df)

\* (variant: a name that resolves to nothing is skipped)
Resolve_skip(self_funcs, func_str, df) ==
    LET transformer == getattr(self_funcs, func_str)
    IN  IF transformer.t = "DataFrame" THEN Raise(ValueError, df)
        ELSE IF transformer.truth
        THEN (IF transformer.t = "method"
              THEN CallMethod(transformer.name, df)
              ELSE Raise(TypeError, df))
        ELSE Ok(df)

\* one pass of the loop body over func_strs, lines 79-86, for a name that is
\* not transform: [ok, df, err]
Resolve(self_funcs, func_str, df) ==
    LET transformer == getattr(self_funcs, func_str)
    IN  IF transformer.t = "DataFrame" THEN Raise(ValueError, df)
        ELSE IF transformer.truth
        THEN (IF transformer.t = "method"
              THEN CallMethod(transformer.name, df)
              ELSE Raise(TypeError, df))
        ELSE Raise(DataTransformerException(func_str), df)

\* (variant: the exception is swallowed and the loop goes on)
Continue_swallow(out) == TRUE

\* (variant: the functions are taken from the far end)
FuncAt_reversed(fs, j) == fs[Len(fs) + 1 - j]

\* the loop over func_strs goes on to the next name only when the call returned;
\* an exception leaves transform() (lines 78-86)
Continue(out) == out.ok

\* the function the second loop runs in its j-th pass (line 88)
FuncAt(fs, j) == fs[j]

\* __init__: the pipeline holds the data frame object and the configuration
DataTransformer_init(df, strs, fs) ==
    [data_frame |-> df, func_strs |-> strs, funcs |-> fs]

----------------------------------------------------------------------------
(* Inputs *)

SeqsUpTo(S, n) == UNION {[1..k -> S] : k \in 0..n}

StepNames == Transformers \cup
             {"not_a_real_step", "data_frame", "funcs", "transform", "__repr__"}

AllColumns == <<QUERY_STATE_COLUMN, QUERY_COLUMN, CPU_TIME_COLUMN, PEAK_MEMORY_COLUMN>>

\* rows over AllColumns; the texts are "Se" and "s1"
FinishedRow == <<"FINISHED", <<83, 101>>, 10, 900>>
FailedRow == <<"FAILED", <<115, 49>>, 900, 10>>
RowPool == {FinishedRow, FailedRow}

\* the data frame of the given rows without the d-th column of AllColumns
\* (d = 0: with all of them), under the default row labels 0, 1, ...
Dataset(d, rows) ==
    LET keep == [k \in 1..Len(AllColumns) |-> k # d]
    IN  [columns |-> Compress(AllColumns, keep),
         index |-> [k \in 1..Len(rows) |-> k - 1],
         rows |-> [k \in 1..Len(rows) |-> Compress(rows[k], keep)]]

Datasets == {Dataset(d, rows) : d \in 0..Len(AllColumns), rows \in SeqsUpTo(RowPool, MaxRows)}
\* a data frame that comes with a CPU-time label column of its own
Labelled == SetColumn(Dataset(0, <<FinishedRow, FailedRow>>), CPU_TIME_LABEL, <<1, 0>>)
MixedDatasets == {Dataset(d, <<FinishedRow, FailedRow>>) : d \in 0..Len(AllColumns)}
                 \cup {Labelled}

\* the configurations explored: any names on a few data frames, the
\* transformers on every data frame, and the functions in every order
Configs ==
    {DataTransformer_init(df, strs, fs) :
        df \in MixedDatasets, strs \in SeqsUpTo(StepNames, MaxSteps),
        fs \in SeqsUpTo(FuncPool, 1)}
    \cup
    {DataTransformer_init(df, strs, <<>>) :
        df \in Datasets, strs \in SeqsUpTo(Transformers, MaxSteps)}
    \cup
    {DataTransformer_init(df, strs, fs) :
        df \in MixedDatasets,
        strs \in SeqsUpTo({"drop_failed_queries", "create_cpu_time_label"}, 1),
        fs \in SeqsUpTo(FuncPool, MaxFuncs)}

----------------------------------------------------------------------------
(* The state machine *)

Frame(i, j) == [i |-> i, j |-> j]
Top == stack[Len(stack)]
SetTop(f) == [stack EXCEPT ![Len(stack)] = f]

Event(op, pos, name, out, arg, ret, calls) ==
    [op |-> op, pos |-> pos, depth |-> Len(stack), name |-> name, out |-> out,
     arg |-> arg, ret |-> ret, calls |-> calls]

Start(c, d0) ==
    /\ data_frame = c.data_frame
    /\ func_strs = c.func_strs
    /\ funcs = c.funcs
    /\ stack = <<Frame(1, 1)>>
    /\ status = "running"
    /\ err = NoError
    /\ result = <<>>
    /\ log = <<>>
    /\ D0 = d0

Init ==
    \E c \in Configs :
        /\ Start(c, c.data_frame)
        /\ run = 1
        /\ first = <<>>
        /\ caller_df = c.data_frame
        /\ aliased = TRUE

\* what the caller's object holds once the pipeline's data frame became df
CallerAfter(out) ==
    IF aliased /\ ~out.fresh THEN out.df ELSE caller_df

\* one pass of the first loop of transform(), lines 78-86
transform_step ==
    /\ status = "running"
    /\ Top.i <= Len(func_strs)
    /\ LET func_str == func_strs[Top.i]
       IN  IF func_str = "transform"
           THEN \* transformer() is transform() itself: a new frame, or the
                \* interpreter's recursion limit
                IF Len(stack) < RecursionLimit
                THEN /\ stack' = Append(stack, Frame(1, 1))
                     /\ log' = Append(log, Event("step", Top.i, func_str, "entered",
                                                 data_frame, data_frame, <<>>))
                     /\ UNCHANGED <<data_frame, status, err, caller_df, aliased>>
                ELSE /\ status' = "failed"
                     /\ err' = RecursionError
                     /\ log' = Append(log, Event("step", Top.i, func_str, "raised",
                                                 data_frame, data_frame, <<>>))
                     /\ UNCHANGED <<data_frame, stack, caller_df, aliased>>
           ELSE LET out == Resolve(funcs, func_str, data_frame)
                IN  /\ data_frame' = out.df
                    /\ caller_df' = CallerAfter(out)
                    /\ aliased' = (aliased /\ ~out.fresh)
                    /\ log' = Append(log, Event("step", Top.i, func_str,
                                                IF out.ok THEN "done" ELSE "raised",
                                                data_frame, out.df, out.calls))
                    /\ IF Continue(out)
                       THEN /\ stack' = SetTop(Frame(Top.i + 1, Top.j))
                            /\ UNCHANGED <<status, err>>
                       ELSE /\ status' = "failed"
                            /\ err' = out.err
                            /\ UNCHANGED stack
    /\ UNCHANGED <<func_strs, funcs, result, D0, run, first>>

\* one pass of the second loop of transform(), lines 88-89
transform_func ==
    /\ status = "running"
    /\ Top.i > Len(func_strs)
    /\ Top.j <= Len(funcs)
    /\ LET func == FuncAt(funcs, Top.j)
           out == CallFunc(func, data_frame)
       IN  /\ log' = Append(log, Event("func", Top.j, func,
                                       IF out.ok THEN "done" ELSE "raised",
                                       data_frame, out.df, <<>>))
           /\ IF out.ok
              THEN /\ data_frame' = out.df
                   /\ aliased' = (aliased /\ ~out.fresh)
                   /\ stack' = SetTop(Frame(Top.i, Top.j + 1))
                   /\ UNCHANGED <<status, err>>
              ELSE /\ status' = "failed"
                   /\ err' = out.err
                   /\ UNCHANGED <<data_frame, aliased, stack>>
    /\ UNCHANGED <<func_strs, funcs, result, D0, run, first, caller_df>>

\* return self.data_frame, lines 91-96; in a nested frame the caller's loop
\* goes on with its next name
transform_return ==
    /\ status = "running"
    /\ Top.i > Len(func_strs)
    /\ Top.j > Len(funcs)
    /\ IF Len(stack) = 1
       THEN /\ status' = "returned"
            /\ result' = data_frame
            /\ UNCHANGED stack
       ELSE /\ stack' = [SubSeq(stack, 1, Len(stack) - 1) EXCEPT
                            ![Len(stack) - 1] = Frame(stack[Len(stack) - 1].i + 1,
                                                      stack[Len(stack) - 1].j)]
            /\ UNCHANGED <<status, result>>
    /\ UNCHANGED <<data_frame, func_strs, funcs, err, log, D0, run, first, caller_df, aliased>>

\* how the pipeline ended
Outcome == [status |-> status, result |-> result, err |-> err,
            stack |-> stack, data_frame |-> data_frame, D0 |-> D0,
            func_strs |-> func_strs]

\* a second pipeline built like the first: on a data frame equal to the first
\* one's input, or on the very object the first one was given
Rebuild ==
    /\ status \in {"returned", "failed"}
    /\ run = 1
    /\ run' = 2
    /\ first' = Outcome
    /\ \E same \in BOOLEAN :
        LET input == IF same THEN caller_df ELSE D0
            c == DataTransformer_init(input, func_strs, funcs)
        IN  /\ data_frame' = c.data_frame
            /\ func_strs' = c.func_strs
            /\ funcs' = c.funcs
            /\ D0' = input
            /\ caller_df' = input
            /\ aliased' = TRUE
    /\ stack' = <<Frame(1, 1)>>
    /\ status' = "running"
    /\ err' = NoError
    /\ result' = <<>>
    /\ log' = <<>>

\* the names with create_labels written out as its two halves
RECURSIVE Expand(_)
Expand(strs) ==
    IF Len(strs) = 0 THEN <<>>
    ELSE (IF Head(strs) = "create_labels"
          THEN <<"create_cpu_time_label", "create_peak_memory_label">>
          ELSE <<Head(strs)>>) \o Expand(Tail(strs))

\* a second pipeline on a data frame equal to the first one's input, with the
\* names strs and the same functions
SecondPipeline(strs) ==
    /\ status \in {"returned", "failed"}
    /\ run = 1
    /\ run' = 2
    /\ first' = Outcome
    /\ LET c == DataTransformer_init(D0, strs, funcs)
       IN  /\ data_frame' = c.data_frame
           /\ func_strs' = c.func_strs
           /\ funcs' = c.funcs
           /\ caller_df' = c.data_frame
    /\ aliased' = TRUE
    /\ stack' = <<Frame(1, 1)>>
    /\ status' = "running"
    /\ err' = NoError
    /\ result' = <<>>
    /\ log' = <<>>
    /\ UNCHANGED D0

\* the second pipeline names the two label steps where the first named
\* create_labels
RebuildSplit ==
    /\ \E k \in 1..Len(func_strs) : func_strs[k] = "create_labels"
    /\ SecondPipeline(Expand(func_strs))

\* the second pipeline names the two steps of the first in the other order
RebuildSwapped ==
    /\ Len(func_strs) = 2
    /\ func_strs[1] # func_strs[2]
    /\ SecondPipeline(Reverse(func_strs))

Next == transform_step \/ transform_func \/ transform_return

Spec == Init /\ [][Next]_vars

NextTwice == Next \/ Rebuild

SpecTwice == Init /\ [][NextTwice]_vars

NextRelated == Next \/ RebuildSplit \/ RebuildSwapped

SpecRelated == Init /\ [][NextRelated]_vars

----------------------------------------------------------------------------
(* Reading the history *)

\* two data frames are equal: same column labels, same row labels, same cells
DfEq(a, b) ==
    /\ a.columns = b.columns
    /\ a.index = b.index
    /\ a.rows = b.rows

Events == 1..Len(log)
StepEvents(d) == {k \in Events : log[k].op = "step" /\ log[k].depth = d}
FuncEvents == {k \in Events : log[k].op = "func"}
\* how many of the events in S come no later than the k-th
Rank(S, k) == Cardinality({m \in S : m <= k})
Last(S) == CHOOSE k \in S : \A m \in S : m <= k
Finished == status \in {"returned", "failed"}

----------------------------------------------------------------------------
(* C1: every name in func_strs that is not one of the six transformers,    *)
(* names of other attributes of the pipeline included, ends transform()    *)
(* in a DataTransformerException whose message carries that name.          *)
C1_UnknownNameIsConfigError ==
    \A k \in Events :
        (log[k].op = "step" /\ log[k].name \notin Transformers)
        => /\ log[k].out = "raised"
           /\ status = "failed"
           /\ err = DataTransformerException(log[k].name)

(* C2: when a step of the first loop raises, nothing runs after it, neither *)
(* a later step nor a function; transform() returns only after every step   *)
(* and every function completed.                                            *)
C2_FailureStopsRun ==
    /\ \A k \in Events :
          (log[k].op = "step" /\ log[k].out = "raised")
          => /\ k = Len(log)
             /\ status = "failed"
             /\ FuncEvents = {}
    /\ status = "returned"
       => /\ \A k \in Events : log[k].out = "done"
          /\ {log[k].pos : k \in StepEvents(1)} = 1..Len(func_strs)
          /\ {log[k].pos : k \in FuncEvents} = 1..Len(funcs)

C2_Witness ==
    /\ status = "failed"
    /\ Len(log) > 0
    /\ log[Len(log)].op = "step"
    /\ log[Len(log)].out = "raised"
    /\ log[Len(log)].pos < Len(func_strs)
    /\ Len(funcs) > 0

(* C3 as claimed: a run that ends in the configuration error holds the data *)
(* frame supplied at construction, whatever steps came before the unknown   *)
(* name.                                                                     *)
C3_FailsBeforeAnyEffect ==
    (status = "failed" /\ err.kind = "DataTransformerException")
    => DfEq(data_frame, D0)

(* C3 amended: a name that resolves to no attribute raises the               *)
(* configuration error when the loop reaches it, before that step or a later *)
(* one has an effect: the held data frame is the one the steps before it     *)
(* left, and it is the data frame supplied at construction when the name is  *)
(* the first one.                                                            *)
C3_FailsBeforeStepN ==
    \A k \in Events :
        (log[k].op = "step" /\ getattr(funcs, log[k].name).t = "None")
        => /\ log[k].out = "raised"
           /\ k = Len(log)
           /\ status = "failed"
           /\ err = DataTransformerException(log[k].name)
           /\ DfEq(log[k].ret, log[k].arg)
           /\ DfEq(data_frame, log[k].arg)
           /\ k > 1 => DfEq(log[k].arg, log[k - 1].ret)
           /\ k = 1 => DfEq(data_frame, D0)

C3_Witness ==
    /\ status = "failed"
    /\ err.kind = "DataTransformerException"
    /\ Len(log) = 2
    /\ log[2].name = "not_a_real_step"
    /\ log[1].out = "done"
    /\ ~DfEq(data_frame, D0)

(* C4: the steps run in the order of func_strs, every function runs after   *)
(* the last step, the functions run in the order given, each on the data    *)
(* frame the previous one returned (the first on the one the steps left),   *)
(* and transform() returns what the last function returned.                 *)
C4_OrderOfExecution ==
    /\ \A d \in 1..Len(stack) : \A k \in StepEvents(d) :
          /\ log[k].pos = Rank(StepEvents(d), k)
          /\ log[k].name = func_strs[log[k].pos]
    /\ \A k \in FuncEvents :
          /\ \A m \in Events : log[m].op = "step" => m < k
          /\ Cardinality(StepEvents(1)) = Len(func_strs)
          /\ log[k].pos = Rank(FuncEvents, k)
          /\ log[k].name = funcs[log[k].pos]
          /\ DfEq(log[k].arg, IF k = 1 THEN D0 ELSE log[k - 1].ret)
    /\ (status = "returned" /\ FuncEvents # {})
       => DfEq(result, log[Last(FuncEvents)].ret)

C4_Witness ==
    /\ status = "returned"
    /\ Len(func_strs) >= 1
    /\ Len(funcs) >= 2
    /\ funcs[1] # funcs[2]
    /\ ~DfEq(log[2].ret, log[2].arg)
    /\ ~DfEq(log[3].ret, log[3].arg)

----------------------------------------------------------------------------
\* where the column labelled c stands in a data frame that has it
ColPos(df, c) == CHOOSE i \in 1..Len(df.columns) : df.columns[i] = c
Has(df, c) == \E i \in 1..Len(df.columns) : df.columns[i] = c
Cell(df, r, c) == df.rows[r][ColPos(df, c)]
OnlyStep(name) == func_strs = <<name>> /\ funcs = <<>>

(* C5: with drop_failed_queries as the only step, transform() returns       *)
(* exactly the rows whose query state is "FINISHED", in their order and     *)
(* with their cells unchanged; without a query-state column it returns the  *)
(* data frame unchanged; and it raises nothing.                             *)
C5_DropFailedQueries ==
    OnlyStep("drop_failed_queries")
    => /\ status # "failed"
       /\ status = "returned"
          => IF Has(D0, QUERY_STATE_COLUMN)
             THEN /\ result.columns = D0.columns
                  /\ Len(result.index) = Len(result.rows)
                  /\ \A k \in 1..Len(result.rows) :
                        \E m \in 1..Len(D0.rows) :
                            /\ D0.index[m] = result.index[k]
                            /\ D0.rows[m] = result.rows[k]
                            /\ Cell(D0, m, QUERY_STATE_COLUMN) = "FINISHED"
                  /\ \A k \in 1..(Len(result.index) - 1) :
                        result.index[k] < result.index[k + 1]
                  /\ \A m \in 1..Len(D0.rows) :
                        Cell(D0, m, QUERY_STATE_COLUMN) = "FINISHED"
                        => \E k \in 1..Len(result.index) : result.index[k] = D0.index[m]
             ELSE DfEq(result, D0)

C5_Witness ==
    /\ OnlyStep("drop_failed_queries")
    /\ status = "returned"
    /\ Has(D0, QUERY_STATE_COLUMN)
    /\ Len(D0.rows) = 2
    /\ Len(result.rows) = 1
    /\ result.index = <<1>>

(* C6: to_lower_queries applied right after to_lower_queries changes        *)
(* nothing.                                                                 *)
C6_ToLowerIdempotent ==
    \A k \in Events :
        (/\ k > 1
         /\ log[k].name = "to_lower_queries"
         /\ log[k - 1].name = "to_lower_queries"
         /\ log[k - 1].out = "done")
        => /\ log[k].out = "done"
           /\ DfEq(log[k].ret, log[k].arg)

C6_Witness ==
    /\ Len(log) = 2
    /\ log[1].name = "to_lower_queries"
    /\ log[2].name = "to_lower_queries"
    /\ log[2].out = "done"
    /\ ~DfEq(log[1].ret, log[1].arg)

\* a create_labels step that completed on a data frame with both metric columns
LabelsDone(k) ==
    /\ log[k].op = "step"
    /\ log[k].name = "create_labels"
    /\ log[k].out = "done"
    /\ Has(log[k].arg, CPU_TIME_COLUMN)
    /\ Has(log[k].arg, PEAK_MEMORY_COLUMN)

Absent(df, labels) == Cardinality({c \in labels : ~Has(df, c)})

(* C7 as claimed: create_labels on a data frame with both metric columns    *)
(* leaves two more columns and as many rows.                                *)
C7_CreateLabelsAddsTwo ==
    \A k \in Events :
        LabelsDone(k)
        => /\ Len(log[k].ret.columns) = Len(log[k].arg.columns) + 2
           /\ Len(log[k].ret.rows) = Len(log[k].arg.rows)

(* C7 amended: create_labels appends the label columns the data frame does  *)
(* not have yet, the CPU-time label before the peak-memory label, and       *)
(* overwrites in place those it has: two more columns when it had neither,  *)
(* and always as many rows.                                                 *)
C7_CreateLabelsAddsAbsent ==
    \A k \in Events :
        LabelsDone(k)
        => /\ Len(log[k].ret.columns) = Len(log[k].arg.columns)
                  + Absent(log[k].arg, {CPU_TIME_LABEL, PEAK_MEMORY_LABEL})
           /\ Absent(log[k].arg, {CPU_TIME_LABEL, PEAK_MEMORY_LABEL}) = 2
              => log[k].ret.columns
                    = log[k].arg.columns \o <<CPU_TIME_LABEL, PEAK_MEMORY_LABEL>>
           /\ Has(log[k].ret, CPU_TIME_LABEL)
           /\ Has(log[k].ret, PEAK_MEMORY_LABEL)
           /\ SubSeq(log[k].ret.columns, 1, Len(log[k].arg.columns)) = log[k].arg.columns
           /\ Len(log[k].ret.rows) = Len(log[k].arg.rows)
           /\ log[k].ret.index = log[k].arg.index

C7_Witness ==
    \E k \in Events :
        /\ LabelsDone(k)
        /\ Len(log[k].arg.rows) = 2
        /\ Absent(log[k].arg, {CPU_TIME_LABEL, PEAK_MEMORY_LABEL}) = 2
        /\ Len(log[k].ret.columns) = Len(log[k].arg.columns) + 2

----------------------------------------------------------------------------
(* C8: select_training_columns right after a completed create_labels leaves *)
(* exactly the columns query, CPU-time label, peak-memory label, in this    *)
(* order, over the same rows; not preceded by create_labels it raises for   *)
(* the missing columns.                                                     *)
C8_SelectTrainingColumns ==
    \A k \in Events :
        (log[k].op = "step" /\ log[k].name = "select_training_columns")
        => IF k > 1 /\ LabelsDone(k - 1) /\ Has(log[k].arg, QUERY_COLUMN)
           THEN /\ log[k].out = "done"
                /\ log[k].ret.columns = <<QUERY_COLUMN, CPU_TIME_LABEL, PEAK_MEMORY_LABEL>>
                /\ log[k].ret.index = log[k].arg.index
                /\ \A r \in 1..Len(log[k].arg.rows) :
                      log[k].ret.rows[r]
                        = <<Cell(log[k].arg, r, QUERY_COLUMN),
                            Cell(log[k].arg, r, CPU_TIME_LABEL),
                            Cell(log[k].arg, r, PEAK_MEMORY_LABEL)>>
           ELSE (k = 1
                 => /\ log[k].out = "raised"
                    /\ status = "failed"
                    /\ err.kind = "KeyError")

\* a step of the first loop that raised for one of: a name that is no
\* transformer, a missing column, a label generator
RaisedStep(k) ==
    /\ log[k].op = "step"
    /\ log[k].out = "raised"
    /\ log[k].name # "transform"

(* C9 as claimed: a step that raises leaves the held data frame as it was   *)
(* when the step began.                                                     *)
C9_FailingStepNoEffect ==
    \A k \in Events :
        RaisedStep(k)
        => /\ DfEq(log[k].ret, log[k].arg)
           /\ DfEq(data_frame, log[k].arg)

\* b is a with the column c added as its last one
AddsColumn(a, b, c) ==
    /\ ~Has(a, c)
    /\ b.columns = Append(a.columns, c)
    /\ b.index = a.index
    /\ Len(b.rows) = Len(a.rows)
    /\ \A r \in 1..Len(a.rows) : SubSeq(b.rows[r], 1, Len(a.columns)) = a.rows[r]

\* create_labels raised in the peak-memory generator after the CPU-time label
\* was assigned
HalfLabelled(k) ==
    /\ log[k].name = "create_labels"
    /\ err = KeyError(<<PEAK_MEMORY_COLUMN>>)
    /\ Has(log[k].arg, CPU_TIME_COLUMN)

(* C9 amended: a step that raises leaves the held data frame as it was when *)
(* the step began, except create_labels when its peak-memory generator      *)
(* raises: the held data frame then keeps the CPU-time label column that    *)
(* the first half of the step assigned.                                     *)
C9_FailingStepEffect ==
    \A k \in Events :
        RaisedStep(k)
        => /\ k = Len(log)
           /\ DfEq(data_frame, log[k].ret)
           /\ IF HalfLabelled(k)
              THEN /\ Has(log[k].ret, CPU_TIME_LABEL)
                   /\ \/ AddsColumn(log[k].arg, log[k].ret, CPU_TIME_LABEL)
                      \/ /\ Has(log[k].arg, CPU_TIME_LABEL)
                         /\ log[k].ret.columns = log[k].arg.columns
              ELSE DfEq(log[k].ret, log[k].arg)

C9_Witness ==
    \E k \in Events :
        /\ RaisedStep(k)
        /\ HalfLabelled(k)
        /\ Len(log[k].arg.rows) = 2
        /\ AddsColumn(log[k].arg, log[k].ret, CPU_TIME_LABEL)

----------------------------------------------------------------------------
\* text b is the lowercase form of text a
IsLowerOf(b, a) ==
    /\ Len(b) = Len(a)
    /\ \A p \in 1..Len(a) :
          b[p] = (IF a[p] \in 65..90 THEN a[p] + 32 ELSE a[p])

\* row k of data frame b is row m of data frame a, but for the column c
SameRowBut(a, m, b, k, c) ==
    /\ b.index[k] = a.index[m]
    /\ \A p \in 1..Len(a.columns) :
          a.columns[p] # c => b.rows[k][p] = a.rows[m][p]

Increasing(seq) == \A k \in 1..(Len(seq) - 1) : seq[k] < seq[k + 1]

(* C11: with the steps drop_failed_queries, to_lower_queries on a data      *)
(* frame that has the query-state and query columns, transform() returns    *)
(* exactly the rows whose state is "FINISHED", in their order, each with    *)
(* its query in lowercase and every other cell as in the input.             *)
C11_DropThenLower ==
    (/\ func_strs = <<"drop_failed_queries", "to_lower_queries">>
     /\ funcs = <<>>
     /\ Has(D0, QUERY_STATE_COLUMN)
     /\ Has(D0, QUERY_COLUMN))
    => /\ status # "failed"
       /\ status = "returned"
          => /\ result.columns = D0.columns
             /\ Len(result.index) = Len(result.rows)
             /\ Increasing(result.index)
             /\ \A k \in 1..Len(result.rows) :
                   \E m \in 1..Len(D0.rows) :
                       /\ SameRowBut(D0, m, result, k, QUERY_COLUMN)
                       /\ Cell(D0, m, QUERY_STATE_COLUMN) = "FINISHED"
                       /\ IsLowerOf(Cell(result, k, QUERY_COLUMN),
                                    Cell(D0, m, QUERY_COLUMN))
             /\ \A m \in 1..Len(D0.rows) :
                   Cell(D0, m, QUERY_STATE_COLUMN) = "FINISHED"
                   => \E k \in 1..Len(result.index) : result.index[k] = D0.index[m]

C11_Witness ==
    /\ func_strs = <<"drop_failed_queries", "to_lower_queries">>
    /\ funcs = <<>>
    /\ status = "returned"
    /\ Has(D0, QUERY_STATE_COLUMN)
    /\ Has(D0, QUERY_COLUMN)
    /\ Len(D0.rows) = 2
    /\ result.index = <<1>>
    /\ Cell(result, 1, QUERY_COLUMN) # Cell(D0, 2, QUERY_COLUMN)

----------------------------------------------------------------------------
\* a create_cpu_time_label or create_peak_memory_label step that completed
LabelStepDone(k) ==
    /\ log[k].op = "step"
    /\ log[k].name \in {"create_cpu_time_label", "create_peak_memory_label"}
    /\ log[k].out = "done"

LabelOf(name) ==
    IF name = "create_cpu_time_label" THEN CPU_TIME_LABEL ELSE PEAK_MEMORY_LABEL
GeneratorOf(name) ==
    IF name = "create_cpu_time_label" THEN "CPUTimeLabelCreator"
    ELSE "PeakMemoryLabelCreator"

\* the step called its generator once per row, in row order, each time with
\* the whole row as the step found it, and the label column holds what the
\* calls returned, row by row
OncePerRow(k) ==
    /\ Len(log[k].calls) = Len(log[k].arg.rows)
    /\ Len(log[k].ret.rows) = Len(log[k].arg.rows)
    /\ log[k].ret.index = log[k].arg.index
    /\ Has(log[k].ret, LabelOf(log[k].name))
    /\ \A r \in 1..Len(log[k].arg.rows) :
          /\ log[k].calls[r].gen = GeneratorOf(log[k].name)
          /\ log[k].calls[r].index = log[k].arg.index[r]
          /\ log[k].calls[r].columns = log[k].arg.columns
          /\ log[k].calls[r].cells = log[k].arg.rows[r]
          /\ Cell(log[k].ret, r, LabelOf(log[k].name)) = log[k].calls[r].val

\* the cells of the columns in cols are in ret what they were in arg
KeepsColumns(k, cols) ==
    \A c \in cols : \A r \in 1..Len(log[k].arg.rows) :
        /\ Has(log[k].ret, c)
        /\ Cell(log[k].ret, r, c) = Cell(log[k].arg, r, c)

ColumnsOf(df) == {df.columns[p] : p \in 1..Len(df.columns)}

(* C12 as claimed: each label step calls its generator once per row with    *)
(* the whole row and stores the value in that row's label cell, and changes *)
(* no cell of any column the data frame had, nor the rows or their order.   *)
C12_LabelStepKeepsAllColumns ==
    \A k \in Events :
        LabelStepDone(k)
        => /\ OncePerRow(k)
           /\ KeepsColumns(k, ColumnsOf(log[k].arg))

(* C12 amended: each label step calls its generator once per row with the   *)
(* whole row and stores the value in that row's label cell; it changes no   *)
(* cell of any other column, nor the rows or their order.  The label column  *)
(* is appended as the last column when the data frame had none of that name, *)
(* and overwritten where it stands when it had one.                          *)
C12_LabelStepKeepsOtherColumns ==
    \A k \in Events :
        LabelStepDone(k)
        => /\ OncePerRow(k)
           /\ KeepsColumns(k, ColumnsOf(log[k].arg) \ {LabelOf(log[k].name)})
           /\ log[k].ret.columns
                 = (IF Has(log[k].arg, LabelOf(log[k].name))
                    THEN log[k].arg.columns
                    ELSE Append(log[k].arg.columns, LabelOf(log[k].name)))

C12_Witness ==
    \E k \in Events :
        /\ LabelStepDone(k)
        /\ log[k].name = "create_peak_memory_label"
        /\ Len(log[k].arg.rows) = 2
        /\ Has(log[k].arg, CPU_TIME_LABEL)
        /\ ~Has(log[k].arg, PEAK_MEMORY_LABEL)
        /\ Cell(log[k].ret, 1, PEAK_MEMORY_LABEL) # Cell(log[k].ret, 2, PEAK_MEMORY_LABEL)

----------------------------------------------------------------------------
\* the second pipeline ended as the first did: both returned equal data
\* frames, or both raised the same exception holding equal data frames
SameEnd ==
    /\ status = first.status
    /\ DfEq(data_frame, first.data_frame)
    /\ status = "returned" => DfEq(result, first.result)
    /\ status = "failed" => err = first.err

(* C13: a pipeline with create_labels and a pipeline with                   *)
(* create_cpu_time_label, create_peak_memory_label in its place end alike   *)
(* on equal inputs: the same held data frame, columns in the same order,    *)
(* and a failure of the one is a failure of the other.                      *)
C13_CreateLabelsIsBothSteps ==
    (/\ run = 2
     /\ Finished
     /\ \E k \in 1..Len(first.func_strs) : first.func_strs[k] = "create_labels"
     /\ func_strs = Expand(first.func_strs))
    => SameEnd

C13_Witness ==
    /\ run = 2
    /\ status = "returned"
    /\ first.func_strs = <<"create_labels">>
    /\ func_strs = <<"create_cpu_time_label", "create_peak_memory_label">>
    /\ Len(D0.rows) = 2
    /\ result.columns = D0.columns \o <<CPU_TIME_LABEL, PEAK_MEMORY_LABEL>>

C13_WitnessFailure ==
    /\ run = 2
    /\ status = "failed"
    /\ first.func_strs = <<"create_labels">>
    /\ func_strs = <<"create_cpu_time_label", "create_peak_memory_label">>
    /\ Has(data_frame, CPU_TIME_LABEL)

----------------------------------------------------------------------------
(* C14: transform() is a single pass: within one run no position of         *)
(* func_strs is executed twice.                                             *)
C14_SinglePass ==
    \A k \in Events : \A m \in Events :
        (/\ k # m
         /\ log[k].op = "step"
         /\ log[m].op = "step")
        => log[k].pos # log[m].pos

\* row k of data frame b is row m of data frame a in the columns cols
SameRowOn(a, m, b, k, cols) ==
    /\ b.index[k] = a.index[m]
    /\ \A c \in cols \cap ColumnsOf(a) :
          /\ Has(b, c)
          /\ Cell(b, k, c) = Cell(a, m, c)

\* the held rows are rows of the input, each once, in the input's order
RowsOfInput ==
    /\ Len(data_frame.index) = Len(data_frame.rows)
    /\ Increasing(data_frame.index)
    /\ \A k \in 1..Len(data_frame.rows) :
          \E m \in 1..Len(D0.rows) :
              SameRowOn(D0, m, data_frame, k,
                        {QUERY_STATE_COLUMN, CPU_TIME_COLUMN, PEAK_MEMORY_COLUMN})

(* C15: while the steps of the first loop run, the held rows are rows of    *)
(* the input in the input's order, none added, repeated or moved; and only  *)
(* drop_failed_queries removes rows.                                        *)
C15_RowsAreSubsequence ==
    FuncEvents = {}
    => /\ RowsOfInput
       /\ \A k \in Events :
             log[k].name # "drop_failed_queries"
             => /\ log[k].ret.index = log[k].arg.index
                /\ Len(log[k].ret.rows) = Len(log[k].arg.rows)

C15_Witness ==
    /\ FuncEvents = {}
    /\ Len(log) = 2
    /\ log[1].name = "drop_failed_queries"
    /\ log[2].name = "to_lower_queries"
    /\ log[2].out = "done"
    /\ Len(D0.rows) = 2
    /\ data_frame.index = <<1>>
    /\ ~DfEq(log[2].ret, log[2].arg)

RowWise == {"to_lower_queries", "create_cpu_time_label", "create_peak_memory_label"}

(* C16: drop_failed_queries before a row-wise step and the same two steps   *)
(* in the other order return equal data frames on equal inputs, whenever    *)
(* both pipelines return.                                                   *)
C16_DropCommutes ==
    (/\ run = 2
     /\ status = "returned"
     /\ first.status = "returned"
     /\ Len(first.func_strs) = 2
     /\ func_strs = <<first.func_strs[2], first.func_strs[1]>>
     /\ \E x \in RowWise :
           first.func_strs \in {<<"drop_failed_queries", x>>, <<x, "drop_failed_queries">>})
    => DfEq(result, first.result)

C16_Witness ==
    /\ run = 2
    /\ status = "returned"
    /\ first.status = "returned"
    /\ first.func_strs = <<"create_cpu_time_label", "drop_failed_queries">>
    /\ func_strs = <<"drop_failed_queries", "create_cpu_time_label">>
    /\ funcs = <<>>
    /\ Len(D0.rows) = 2
    /\ Len(result.rows) = 1
    /\ Has(result, CPU_TIME_LABEL)

====
